---- MODULE Spec2Model ----
(***************************************************************************)
(* GoCache: an in-process key/value store whose entries carry an expiry    *)
(* timestamp (src/main.go).  One Cache, guarded by one sync.RWMutex, is    *)
(* shared by caller goroutines and by the janitor goroutine.               *)
(*                                                                         *)
(* Time is counted in ticks of the cache's defaultExpiry (20 ms in main):  *)
(* time.Now() is the variable now, advanced by Tick.                       *)
(*                                                                         *)
(* Granularity.  A goroutine's step is one lock operation together with    *)
(* the code that follows it up to the next lock operation or clock read:   *)
(* under the lock the map cannot change, so only the lock operations, the  *)
(* clock reads and the atomic accesses of readOnly are interleaved.  A     *)
(* goroutine that waits for the lock is a goroutine whose step is not      *)
(* enabled.                                                                *)
(***************************************************************************)
EXTENDS Integers, FiniteSets

\* ---------------------------------------------------------------- bounds
NumCallers == 2      \* caller goroutines sharing the cache
NumKeys    == 2      \* distinct keys the callers use
NumVals    == 2      \* distinct values the callers store
MaxTTL     == 2      \* largest expiry argument of Set, in ticks
MaxCap     == 2      \* largest maxItems argument of Set
MaxTime    == 3      \* the clock stops advancing here
MaxFreeze  == 2      \* SaveAndExit is called at most this many times
MaxCalls   == 3      \* the callers make at most this many calls in all

\* ------------------------------------------------------ program constants
defaultExpiry == 1   \* NewCacheWithJanitor(time.Millisecond*20, ...): one tick

Janitor == 0
Callers == 1..NumCallers
Threads == Callers \cup {Janitor}
Keys    == 1..NumKeys
Vals    == 1..NumVals
TTLs    == 0..MaxTTL
Caps    == 1..MaxCap

NoOne   == -1        \* no goroutine
NoVal   == 0         \* the empty string "" returned with found = false
NoTime  == -1        \* no expiry: no Set has completed
NoLen   == -1        \* main has not read len(c.items) yet

VARIABLES
  items,      \* Cache.items: a function from the keys present to [val, expiry]
  readOnly,   \* Cache.readOnly: the int32 counter behind the freeze flag
  mu,         \* Cache.mu: [w: the goroutine holding the exclusive lock, or NoOne,
              \*            r: the goroutines holding the shared lock]
  now,        \* time.Now()
  pc,         \* per goroutine: where it is in the method it runs
  call,       \* per goroutine: the method it runs (or ran last) and its arguments
  ret,        \* per goroutine: what the method returned
  sweep,      \* per goroutine: the locals of the cleanup() it runs
  timer,      \* the janitor's time.After deadline
  lastSet,    \* history: per key, the entry the last completed Set stored
  clean,      \* history: keys with no Set or GetOrDelete since lastSet
  calls,      \* history: the number of calls made so far
  remained    \* main: the len(c.items) it read for its report, or NoLen

vars == <<items, readOnly, mu, now, pc, call, ret, sweep, timer, lastSet, clean, calls, remained>>

\* ------------------------------------------------------------ data types
\* maxItems is kept while Set is inside the cleanup it called, ro (the value
\* Set loaded from readOnly) while Set is on its way to the insert
NoCall  == [op |-> "none", k |-> 0, maxItems |-> 0, ro |-> 0]
\* (value, found) of Get and GetOrDelete; stale: the key was present but expired
NoRet   == [val |-> NoVal, found |-> FALSE, stale |-> FALSE]
\* keys, scanned: cleanup's slice and the range loop's progress; history:
\* start is the clock when the scan began, old and due are the keys whose
\* expiry was < resp. <= start, fresh the keys a Set has written since the
\* scan ended
NoSweep == [keys |-> {}, scanned |-> {}, start |-> NoTime, old |-> {}, due |-> {}, fresh |-> {}]

\* item{val, expiry}
Item(v, e) == [val |-> v, expiry |-> e]
NoItem == Item(NoVal, NoTime)

\* len(c.items)
Len == Cardinality(DOMAIN items)

\* delete(c.items, k) for every k of ks; deleting an absent key is a no-op
Without(m, ks) == [x \in (DOMAIN m) \ ks |-> m[x]]

\* variant of With: the insert keeps the value of a key already present
WithOldVal(m, k, it) ==
  [x \in (DOMAIN m) \cup {k} |->
     IF x = k THEN (IF k \in DOMAIN m THEN Item(m[k].val, it.expiry) ELSE it) ELSE m[x]]

\* variant of With: the insert keeps the expiry of a key already present
WithOldExpiry(m, k, it) ==
  [x \in (DOMAIN m) \cup {k} |->
     IF x = k THEN (IF k \in DOMAIN m THEN Item(it.val, m[k].expiry) ELSE it) ELSE m[x]]

\* c.items[k] = it
With(m, k, it) == [x \in (DOMAIN m) \cup {k} |-> IF x = k THEN it ELSE m[x]]

\* variant of Expired: an entry lives one tick longer
ExpiredLate(e, t) == t > e + 1

\* the expiry test of Get, GetOrDelete and cleanup: time.Now().UnixNano() > expiry
Expired(e, t) == t > e

\* ------------------------------------------------------------ sync.RWMutex
\* RLock succeeds when no writer holds the lock
CanRLock == mu.w = NoOne
RLocked(t) == [mu EXCEPT !.r = @ \cup {t}]
RUnlocked(t) == [mu EXCEPT !.r = @ \ {t}]
\* Lock succeeds when no writer and no reader holds the lock
CanLock == mu.w = NoOne /\ mu.r = {}
Locked(t) == [mu EXCEPT !.w = t]
Unlocked == [mu EXCEPT !.w = NoOne]

\* ------------------------------------------------------------------ Init
Init ==
  /\ items = <<>>
  /\ readOnly = 0
  /\ mu = [w |-> NoOne, r |-> {}]
  /\ now = 0
  /\ pc = [t \in Threads |-> IF t = Janitor THEN "jan_sleep" ELSE "idle"]
  /\ call = [t \in Threads |-> NoCall]
  /\ ret = [t \in Threads |-> NoRet]
  /\ sweep = [t \in Threads |-> NoSweep]
  /\ timer = 2 * defaultExpiry
  /\ lastSet = [k \in Keys |-> NoItem]
  /\ clean = {}
  /\ calls = 0
  /\ remained = NoLen

\* ----------------------------------------------------------------- clock
Tick ==
  /\ now < MaxTime
  /\ now' = now + 1
  /\ UNCHANGED <<items, readOnly, mu, pc, call, ret, sweep, timer, lastSet, clean, calls, remained>>

\* a goroutine that runs no method: it has made no call yet or its call returned
Idle(t) == pc[t] \in {"idle", "ret"}

\* goroutines other than t that are inside a Set or GetOrDelete on k
Busy(t, k) == {u \in Callers \ {t} : ~Idle(u) /\ call[u].k = k /\ call[u].op \in {"Set", "GetOrDelete"}}

\* sweeps that have finished their scan and not yet returned
PastScan == {s \in Threads : pc[s] \in {"cl_lock", "cl_delete", "cl_ret"}}

\* ------------------------------------------------------------------- Set
\* variant of Set: the call goes on to the lock whatever it loads from readOnly
SetAnyway(t, k) ==
  /\ Idle(t)
  /\ call' = [call EXCEPT ![t] = [NoCall EXCEPT !.op = "Set", !.k = k, !.ro = readOnly]]
  /\ ret' = [ret EXCEPT ![t] = NoRet]
  /\ pc' = [pc EXCEPT ![t] = "set_lock"]
  /\ clean' = clean \ {k}
  /\ UNCHANGED <<items, readOnly, mu, now, sweep, timer, lastSet>>

\* Set, entry: the atomic load of readOnly; a frozen cache drops the call.
\* The arguments v, maxItems and expiry are opaque until Set reads them, so
\* each is drawn where Set first uses it.
Set(t, k) ==
  /\ Idle(t)
  /\ call' = [call EXCEPT ![t] = [NoCall EXCEPT !.op = "Set", !.k = k,
                                          !.ro = IF readOnly = 1 THEN 0 ELSE readOnly]]
  /\ ret' = [ret EXCEPT ![t] = NoRet]
  /\ pc' = [pc EXCEPT ![t] = IF readOnly = 1 THEN "ret" ELSE "set_lock"]
  /\ clean' = clean \ {k}
  /\ UNCHANGED <<items, readOnly, mu, now, sweep, timer, lastSet>>

\* variant of SetLock: the capacity test is len(c.items) + 1 >= maxItems
SetLockEarly(t, maxItems) ==
  /\ pc[t] = "set_lock"
  /\ CanLock
  /\ mu' = Locked(t)
  /\ IF Len + 1 >= maxItems
     THEN /\ pc' = [pc EXCEPT ![t] = "cl_rlock"]
          /\ call' = [call EXCEPT ![t].maxItems = maxItems]
     ELSE /\ pc' = [pc EXCEPT ![t] = "set_write"]
          /\ call' = call
  /\ UNCHANGED <<items, readOnly, now, ret, sweep, timer, lastSet, clean, calls, remained>>

\* Set: c.mu.Lock(); if len(c.items) >= maxItems { c.cleanup() }
SetLock(t, maxItems) ==
  /\ pc[t] = "set_lock"
  /\ CanLock
  /\ mu' = Locked(t)
  /\ IF Len >= maxItems
     THEN /\ pc' = [pc EXCEPT ![t] = "cl_rlock"]
          /\ call' = [call EXCEPT ![t].maxItems = maxItems]
     ELSE /\ pc' = [pc EXCEPT ![t] = "set_write"]
          /\ call' = call
  /\ UNCHANGED <<items, readOnly, now, ret, sweep, timer, lastSet, clean, calls, remained>>

\* Set: c.items[k] = &item{v, now + expiry}, then the deferred Unlock
SetWrite(t, v, expiry) ==
  /\ pc[t] = "set_write"
  /\ LET k == call[t].k
         it == Item(v, now + expiry)
     IN /\ items' = With(items, k, it)
        /\ lastSet' = [lastSet EXCEPT ![k] = it]
        /\ clean' = IF Busy(t, k) = {} THEN clean \cup {k} ELSE clean \ {k}
        /\ sweep' = [s \in Threads |-> IF s \in PastScan
                                        THEN [sweep[s] EXCEPT !.fresh = @ \cup {k}]
                                        ELSE sweep[s]]
  /\ mu' = Unlocked
  /\ pc' = [pc EXCEPT ![t] = "ret"]
  /\ call' = [call EXCEPT ![t].maxItems = 0, ![t].ro = 0]
  /\ UNCHANGED <<readOnly, now, ret, timer, calls, remained>>

\* ------------------------------------------------------------------- Get
\* what Get finds for key k at clock value t
Lookup(m, k, t) ==
  IF k \notin DOMAIN m THEN NoRet
  ELSE IF Expired(m[k].expiry, t)
       THEN [val |-> NoVal, found |-> FALSE, stale |-> TRUE]
       ELSE [val |-> m[k].val, found |-> TRUE, stale |-> FALSE]

\* Get: c.mu.RLock()
Get(t, k) ==
  /\ Idle(t)
  /\ CanRLock
  /\ mu' = RLocked(t)
  /\ call' = [call EXCEPT ![t] = [NoCall EXCEPT !.op = "Get", !.k = k]]
  /\ ret' = [ret EXCEPT ![t] = NoRet]
  /\ pc' = [pc EXCEPT ![t] = "get_read"]
  /\ UNCHANGED <<items, readOnly, now, sweep, timer, lastSet, clean>>

\* variant of GetRead: Get removes the expired entry it finds
GetReadEager(t) ==
  /\ pc[t] = "get_read"
  /\ LET r == Lookup(items, call[t].k, now)
     IN /\ ret' = [ret EXCEPT ![t] = r]
        /\ items' = IF r.stale THEN Without(items, {call[t].k}) ELSE items
  /\ mu' = RUnlocked(t)
  /\ pc' = [pc EXCEPT ![t] = "ret"]
  /\ UNCHANGED <<readOnly, now, call, sweep, timer, lastSet, clean, calls, remained>>

\* Get: the lookup, the expiry test and the deferred RUnlock
GetRead(t) ==
  /\ pc[t] = "get_read"
  /\ ret' = [ret EXCEPT ![t] = Lookup(items, call[t].k, now)]
  /\ mu' = RUnlocked(t)
  /\ pc' = [pc EXCEPT ![t] = "ret"]
  /\ UNCHANGED <<items, readOnly, now, call, sweep, timer, lastSet, clean, calls, remained>>

\* ----------------------------------------------------------- GetOrDelete
\* variant of LookupOrDelete: an entry counts as expired from the clock value
\* of its expiry on
LookupOrDeleteEarly(m, k, t) ==
  IF k \in DOMAIN m
  THEN IF t >= m[k].expiry
       THEN [val |-> NoVal, found |-> FALSE, stale |-> TRUE]
       ELSE [val |-> m[k].val, found |-> TRUE, stale |-> FALSE]
  ELSE [val |-> NoVal, found |-> FALSE, stale |-> FALSE]

\* what GetOrDelete finds for key k at clock value t: v, ok := c.items[k];
\* ("", false) if !ok; ("", false) and the delete if now > v.expiry;
\* (v.val, true) otherwise
LookupOrDelete(m, k, t) ==
  IF k \in DOMAIN m
  THEN IF Expired(m[k].expiry, t)
       THEN [val |-> NoVal, found |-> FALSE, stale |-> TRUE]
       ELSE [val |-> m[k].val, found |-> TRUE, stale |-> FALSE]
  ELSE [val |-> NoVal, found |-> FALSE, stale |-> FALSE]

\* GetOrDelete: c.mu.RLock()
GetOrDelete(t, k) ==
  /\ Idle(t)
  /\ CanRLock
  /\ mu' = RLocked(t)
  /\ call' = [call EXCEPT ![t] = [NoCall EXCEPT !.op = "GetOrDelete", !.k = k]]
  /\ ret' = [ret EXCEPT ![t] = NoRet]
  /\ pc' = [pc EXCEPT ![t] = "god_read"]
  /\ clean' = clean \ {k}
  /\ UNCHANGED <<items, readOnly, now, sweep, timer, lastSet>>

\* variant of GetOrDeleteRead: the expired path returns without c.delete(k)
GetOrDeleteReadOnly(t) ==
  /\ pc[t] = "god_read"
  /\ ret' = [ret EXCEPT ![t] = LookupOrDelete(items, call[t].k, now)]
  /\ pc' = [pc EXCEPT ![t] = "ret"]
  /\ mu' = RUnlocked(t)
  /\ UNCHANGED <<items, readOnly, now, call, sweep, timer, lastSet, clean, calls, remained>>

\* GetOrDelete: the lookup and the expiry test; RUnlock on each of the three
\* paths, and the expired path goes on to c.delete(k)
GetOrDeleteRead(t) ==
  /\ pc[t] = "god_read"
  /\ LET r == LookupOrDelete(items, call[t].k, now)
     IN /\ ret' = [ret EXCEPT ![t] = r]
        /\ pc' = [pc EXCEPT ![t] = IF r.stale THEN "del_lock" ELSE "ret"]
  /\ mu' = RUnlocked(t)
  /\ UNCHANGED <<items, readOnly, now, call, sweep, timer, lastSet, clean, calls, remained>>

\* ---------------------------------------------------------------- delete
\* delete: c.mu.Lock()
DeleteLock(t) ==
  /\ pc[t] = "del_lock"
  /\ CanLock
  /\ mu' = Locked(t)
  /\ pc' = [pc EXCEPT ![t] = "del_do"]
  /\ UNCHANGED <<items, readOnly, now, call, ret, sweep, timer, lastSet, clean, calls, remained>>

\* variant of delete: the entry is removed only if it is still expired
deleteIfExpired(t) ==
  /\ pc[t] = "del_do"
  /\ items' = IF Lookup(items, call[t].k, now).stale THEN Without(items, {call[t].k}) ELSE items
  /\ mu' = Unlocked
  /\ pc' = [pc EXCEPT ![t] = "ret"]
  /\ UNCHANGED <<readOnly, now, call, ret, sweep, timer, lastSet, clean, calls, remained>>

\* variant of delete: the map is emptied
deleteAll(t) ==
  /\ pc[t] = "del_do"
  /\ items' = <<>>
  /\ mu' = Unlocked
  /\ pc' = [pc EXCEPT ![t] = "ret"]
  /\ UNCHANGED <<readOnly, now, call, ret, sweep, timer, lastSet, clean, calls, remained>>

\* delete: delete(c.items, k), then the deferred Unlock
delete(t) ==
  /\ pc[t] = "del_do"
  /\ items' = Without(items, {call[t].k})
  /\ mu' = Unlocked
  /\ pc' = [pc EXCEPT ![t] = "ret"]
  /\ UNCHANGED <<readOnly, now, call, ret, sweep, timer, lastSet, clean, calls, remained>>

\* ----------------------------------------------------------- SaveAndExit
\* atomic.AddInt32(&c.readOnly, 1)
SaveAndExit(t) ==
  /\ Idle(t)
  /\ readOnly < MaxFreeze
  /\ readOnly' = readOnly + 1
  /\ UNCHANGED <<items, mu, now, pc, call, ret, sweep, timer, lastSet, clean>>

\* --------------------------------------------------------------- cleanup
\* cleanup: c.mu.RLock(); keys := []string{}
CleanupRLock(t) ==
  /\ pc[t] = "cl_rlock"
  /\ CanRLock
  /\ mu' = RLocked(t)
  /\ sweep' = [sweep EXCEPT ![t] =
       [NoSweep EXCEPT !.start = now,
                       !.old = {k \in DOMAIN items : items[k].expiry < now},
                       !.due = {k \in DOMAIN items : items[k].expiry <= now}]]
  /\ pc' = [pc EXCEPT ![t] = "cl_scan"]
  /\ UNCHANGED <<items, readOnly, now, call, ret, timer, lastSet, clean, calls, remained>>

\* variant of CleanupScan: every key the loop visits is collected
CleanupScanAll(t, k) ==
  /\ pc[t] = "cl_scan"
  /\ k \in (DOMAIN items) \ sweep[t].scanned
  /\ sweep' = [sweep EXCEPT ![t].scanned = @ \cup {k}, ![t].keys = @ \cup {k}]
  /\ UNCHANGED <<items, readOnly, mu, now, pc, call, ret, timer, lastSet, clean, calls, remained>>

\* cleanup, one iteration of the range loop: the key is collected if its
\* entry is expired at the clock value read for it
CleanupScan(t, k) ==
  /\ pc[t] = "cl_scan"
  /\ k \in (DOMAIN items) \ sweep[t].scanned
  /\ sweep' = [sweep EXCEPT ![t].scanned = @ \cup {k},
                            ![t].keys = IF Expired(items[k].expiry, now) THEN @ \cup {k} ELSE @]
  /\ UNCHANGED <<items, readOnly, mu, now, pc, call, ret, timer, lastSet, clean, calls, remained>>

\* cleanup: the range loop is over, c.mu.RUnlock()
CleanupRUnlock(t) ==
  /\ pc[t] = "cl_scan"
  /\ DOMAIN items \subseteq sweep[t].scanned
  /\ mu' = RUnlocked(t)
  /\ pc' = [pc EXCEPT ![t] = "cl_lock"]
  /\ UNCHANGED <<items, readOnly, now, call, ret, sweep, timer, lastSet, clean, calls, remained>>

\* cleanup: c.mu.Lock()
CleanupLock(t) ==
  /\ pc[t] = "cl_lock"
  /\ CanLock
  /\ mu' = Locked(t)
  /\ pc' = [pc EXCEPT ![t] = "cl_delete"]
  /\ UNCHANGED <<items, readOnly, now, call, ret, sweep, timer, lastSet, clean, calls, remained>>

\* variant of CleanupDelete: the delete loop removes nothing
CleanupDeleteNone(t) ==
  /\ pc[t] = "cl_delete"
  /\ mu' = Unlocked
  /\ pc' = [pc EXCEPT ![t] = "cl_ret"]
  /\ UNCHANGED <<items, readOnly, now, call, ret, sweep, timer, lastSet, clean, calls, remained>>

\* cleanup: delete(c.items, k) for the collected keys, then the deferred Unlock
CleanupDelete(t) ==
  /\ pc[t] = "cl_delete"
  /\ items' = Without(items, sweep[t].keys)
  /\ mu' = Unlocked
  /\ pc' = [pc EXCEPT ![t] = "cl_ret"]
  /\ UNCHANGED <<readOnly, now, call, ret, sweep, timer, lastSet, clean, calls, remained>>

\* cleanup returns: to Set, which goes on to its insert, or to the janitor's
\* loop, which arms the next time.After(c.defaultExpiry * 2).  (A cleanup
\* called by Set waits at its RLock for the Lock that Set itself holds.)
CleanupReturn(t) ==
  /\ pc[t] = "cl_ret"
  /\ sweep' = [sweep EXCEPT ![t] = NoSweep]
  /\ IF t = Janitor
     THEN /\ pc' = [pc EXCEPT ![t] = "jan_sleep"]
          /\ timer' = now + 2 * defaultExpiry
     ELSE /\ pc' = [pc EXCEPT ![t] = "set_write"]
          /\ timer' = timer
  /\ UNCHANGED <<items, readOnly, mu, now, call, ret, lastSet, clean, calls, remained>>

\* --------------------------------------------------------------- janitor
\* <-time.After(c.defaultExpiry * 2) fires, c.cleanup() is called
janitor ==
  /\ pc[Janitor] = "jan_sleep"
  /\ now >= timer
  /\ pc' = [pc EXCEPT ![Janitor] = "cl_rlock"]
  /\ UNCHANGED <<items, readOnly, mu, now, call, ret, sweep, timer, lastSet, clean, calls, remained>>

\* ------------------------------------------------------------------ main
\* main, after <-ch twice (the writers and the readers are done):
\* len(c.items), read without the lock.  The janitor is still running: a read
\* that races with its delete loop sees the count at any point of the loop.
main ==
  /\ remained = NoLen
  /\ \A t \in Callers : Idle(t)
  /\ remained' \in IF pc[Janitor] = "cl_delete"
                   THEN {Len - j : j \in 0..Cardinality(sweep[Janitor].keys \cap DOMAIN items)}
                   ELSE {Len}
  /\ UNCHANGED <<items, readOnly, mu, now, pc, call, ret, sweep, timer, lastSet, clean, calls>>

\* ------------------------------------------------------------------ Next
\* a goroutine goes on with the method it is in
Step(t) ==
  \/ \E m \in Caps : SetLock(t, m)
  \/ \E v \in Vals, e \in TTLs : SetWrite(t, v, e)
  \/ GetRead(t)
  \/ GetOrDeleteRead(t)
  \/ DeleteLock(t)
  \/ delete(t)
  \/ CleanupRLock(t)
  \/ \E k \in Keys : CleanupScan(t, k)
  \/ CleanupRUnlock(t)
  \/ CleanupLock(t)
  \/ CleanupDelete(t)
  \/ CleanupReturn(t)

\* a caller calls a method; main waits for the callers before its report
Begin(t) ==
  /\ calls < MaxCalls
  /\ remained = NoLen
  /\ calls' = calls + 1
  /\ remained' = remained
  /\ \/ \E k \in Keys : Set(t, k)
     \/ \E k \in Keys : Get(t, k)
     \/ \E k \in Keys : GetOrDelete(t, k)
     \/ SaveAndExit(t)

Next ==
  \/ Tick
  \/ janitor
  \/ main
  \/ \E t \in Callers : Begin(t)
  \/ \E t \in Threads : Step(t)

Spec == Init /\ [][Next]_vars

\* goroutines are scheduled fairly; callers need not call again
FairSpec == Spec /\ WF_vars(Tick) /\ WF_vars(janitor) /\ \A t \in Threads : WF_vars(Step(t))

\* ================================================================ claims
\* the key of the call goroutine t is in
K(t) == call[t].k

\* goroutine t has returned from a call of op
Returned(t, op) == pc[t] = "ret" /\ call[t].op = op

\* ---------------------------------------------------------------- C1
\* C1 as stated: a Get or GetOrDelete whose expiry test reads a clock value
\* now with expiresAt <= now returns found = false.
C1_ExpiredNeverReturned ==
  [][\A t \in Callers :
       (GetRead(t) \/ GetOrDeleteRead(t)) /\ K(t) \in DOMAIN items /\ items[K(t)].expiry <= now
         => ~ret'[t].found]_vars

\* C1, amended: a Get or GetOrDelete whose expiry test reads a clock value now
\* with expiresAt < now returns found = false and no value, whether or not the
\* entry is still in the map; at now = expiresAt the entry is still returned.
C1_PastExpiryNeverReturned ==
  [][\A t \in Callers :
       (GetRead(t) \/ GetOrDeleteRead(t)) /\ K(t) \in DOMAIN items
         => /\ items[K(t)].expiry < now => ~ret'[t].found /\ ret'[t].val = NoVal
            /\ items[K(t)].expiry = now => ret'[t].found]_vars

\* a GetOrDelete has found its key expired and goes on to delete it: it
\* returns found = false while the entry is still in the map
C1_StaleNotReturned ==
  \E t \in Callers : /\ pc[t] = "del_lock"
                     /\ ret[t].stale /\ ~ret[t].found
                     /\ K(t) \in DOMAIN items /\ items[K(t)].expiry < now

\* ---------------------------------------------------------------- C2
\* C2 as stated: after a Set(k, v, _, t) completed at now0, with no later Set
\* or GetOrDelete on k, every Get(k) at a clock value < now0 + t returns
\* (v, true), whatever sweeps have run.
C2_LiveUntilExpiry ==
  [][\A t \in Callers :
       GetRead(t) /\ K(t) \in clean /\ now < lastSet[K(t)].expiry
         => ret'[t].found /\ ret'[t].val = lastSet[K(t)].val]_vars

\* ---------------------------------------------------------------- C3
\* C3 as stated: a Set that starts after SaveAndExit has been called once or
\* more (it loads readOnly >= 1) leaves the entries map unchanged.
C3_FrozenForever ==
  [][\A t \in Callers :
       (\E v \in Vals, e \in TTLs : SetWrite(t, v, e)) /\ call[t].ro >= 1
         => items' = items]_vars

\* ---------------------------------------------------------------- C4
\* a Set has found len(c.items) >= maxItems and is inside the cleanup it called
AtCapacity(t) == call[t].op = "Set" /\ pc[t] = "cl_rlock"

\* C4 as stated: every Set that finds the entry count >= maxItems eventually
\* returns.
C4_SetAtCapacityReturns ==
  \A t \in Callers : AtCapacity(t) ~> Returned(t, "Set")

\* ---------------------------------------------------------------- C5
\* C5 as stated: a Set that finds exactly maxItems entries, all of them
\* expired, gets them removed by its inline sweep: it reaches its insert with
\* the count below maxItems.
C5_OverflowReclaims ==
  \A t \in Callers :
    (AtCapacity(t) /\ Len = call[t].maxItems /\ \A k \in DOMAIN items : items[k].expiry < now)
      ~> (pc[t] = "set_write" /\ Len < call[t].maxItems)

\* ---------------------------------------------------------------- C6
\* C6 as stated: a sweep never removes an entry whose expiresAt is later than
\* the clock at the start of its scan, whatever Sets ran meanwhile.
C6_SweepSparesLive ==
  [][\A t \in Threads :
       CleanupDelete(t)
         => \A k \in DOMAIN items : items[k].expiry > sweep[t].start => k \in DOMAIN items']_vars

\* ---------------------------------------------------------------- C7
\* C7 as stated: when a sweep returns, every entry that had expiresAt <= the
\* clock at the start of the scan, and whose key no Set has written since,
\* is absent from the map.
C7_SweepRemovesDue ==
  \A t \in Threads :
    pc[t] = "cl_ret" => \A k \in sweep[t].due \ sweep[t].fresh : k \notin DOMAIN items

\* C7, amended: when a sweep returns, every entry that had expiresAt < the
\* clock at the start of the scan, and whose key no Set has written since,
\* is absent from the map.
C7_SweepRemovesOld ==
  \A t \in Threads :
    pc[t] = "cl_ret" => \A k \in sweep[t].old \ sweep[t].fresh : k \notin DOMAIN items

\* a sweep has removed an entry that was past its expiry when the scan began
\* and kept another entry
C7_SweptOld ==
  \E t \in Threads : /\ pc[t] = "cl_ret"
                     /\ sweep[t].old # {} /\ sweep[t].fresh = {}
                     /\ sweep[t].old \cap DOMAIN items = {}
                     /\ DOMAIN items # {}

\* ---------------------------------------------------------------- C8
\* C8: a GetOrDelete(k) that found k present but expired returns (found =
\* false) only by the step that deletes k: right after it k is absent, the
\* other keys are as they were, and the count is one lower if k was still
\* in the map.
C8_GetOrDeleteReclaims ==
  [][\A t \in Callers :
       call[t].op = "GetOrDelete" /\ pc[t] # "ret" /\ pc'[t] = "ret" /\ ret'[t].stale
         => /\ ~ret'[t].found
            /\ K(t) \notin DOMAIN items'
            /\ items' = Without(items, {K(t)})
            /\ K(t) \in DOMAIN items => Cardinality(DOMAIN items') = Len - 1]_vars

\* a GetOrDelete has returned found = false for an expired key, the key is
\* gone and another key is still in the map
C8_Reclaimed ==
  \E t \in Callers : /\ Returned(t, "GetOrDelete")
                     /\ ret[t].stale /\ ~ret[t].found
                     /\ K(t) \notin DOMAIN items
                     /\ Len = 1

\* ---------------------------------------------------------------- C9
\* C9: Get leaves the entries map and readOnly unchanged and never takes the
\* lock in exclusive mode; while it reads it holds the shared lock.
C9_GetReadOnly ==
  [][\A t \in Callers :
       ((\E k \in Keys : Get(t, k)) \/ GetRead(t))
         => /\ items' = items /\ readOnly' = readOnly
            /\ mu'.w = mu.w /\ mu.w # t
            /\ GetRead(t) => t \in mu.r]_vars

\* a Get has returned found = false for an expired entry that is still in
\* the map
C9_StaleLeftInPlace ==
  \E t \in Callers : /\ Returned(t, "Get")
                     /\ ret[t].stale /\ ~ret[t].found
                     /\ K(t) \in DOMAIN items /\ items[K(t)].expiry < now

\* --------------------------------------------------------------- C10
\* C10: a Get(k) returns found = false or the value of the last Set on k
\* that completed before the Get took the lock.
C10_ReadYourWrites ==
  [][\A t \in Callers :
       GetRead(t) /\ ret'[t].found => ret'[t].val = lastSet[K(t)].val]_vars

\* a Get has returned the value that the other caller's Set stored for the
\* same key
C10_ReadLastWrite ==
  \E t \in Callers : /\ Returned(t, "Get") /\ ret[t].found
                     /\ ret[t].val = lastSet[K(t)].val
                     /\ \E u \in Callers \ {t} : Returned(u, "Set") /\ K(u) = K(t)

\* --------------------------------------------------------------- C11
\* C11: a Set that loads readOnly = 1 (the frozen flag is set) returns at
\* once: it takes no lock, starts no cleanup and leaves the entries map as
\* it was; nothing is returned to the caller.
C11_FrozenSetDropped ==
  [][\A t \in Callers :
       (\E k \in Keys : Set(t, k)) /\ readOnly = 1
         => /\ items' = items /\ mu' = mu /\ sweep' = sweep
            /\ pc'[t] = "ret" /\ ret'[t] = NoRet]_vars

\* a Set on a key that no Set has ever written has returned from a frozen
\* cache: the key is absent and the entry stored before the freeze is kept
C11_Dropped ==
  \E t \in Callers : /\ Returned(t, "Set") /\ readOnly = 1
                     /\ lastSet[K(t)] = NoItem /\ K(t) \notin DOMAIN items
                     /\ Len = 1

\* --------------------------------------------------------------- C12
\* C12 as stated: once a SaveAndExit has returned (readOnly >= 1) the entries
\* map never changes again, whatever Sets were already in progress and
\* whatever sweeps and GetOrDeletes run.
C12_NoMutationAfterFreeze ==
  [][readOnly >= 1 => items' = items]_vars

\* --------------------------------------------------------------- C13
\* C13: a Set(k, v2, _, t2) that stores at clock value now while k is present
\* leaves one entry for k, with value v2 and expiry now + t2, and the same
\* keys in the map as before.
C13_Overwrite ==
  [][\A t \in Callers, v \in Vals, e \in TTLs :
       SetWrite(t, v, e) /\ K(t) \in DOMAIN items
         => /\ items'[K(t)] = [val |-> v, expiry |-> now + e]
            /\ DOMAIN items' = DOMAIN items
            /\ Cardinality(DOMAIN items') = Len]_vars

\* the two callers have each completed a Set on the same key, with no freeze,
\* no other call and no sweep so far: the second Set found the key present;
\* the map holds one entry, the one stored last
C13_Overwritten ==
  \E t \in Callers, u \in Callers :
    /\ t # u /\ Returned(t, "Set") /\ Returned(u, "Set") /\ K(t) = K(u)
    /\ calls = 2 /\ readOnly = 0
    /\ pc[Janitor] = "jan_sleep" /\ timer = 2 * defaultExpiry
    /\ Len = 1 /\ K(t) \in DOMAIN items /\ items[K(t)] = lastSet[K(t)]

\* --------------------------------------------------------------- C14
\* C14: after delete(k) k is absent and every other key has the entry it
\* had; deleting an absent key changes nothing; a second delete(k) changes
\* nothing more.
C14_DeleteLocal ==
  [][\A t \in Callers :
       delete(t)
         => /\ K(t) \notin DOMAIN items'
            /\ DOMAIN items' = (DOMAIN items) \ {K(t)}
            /\ \A k \in DOMAIN items' : items'[k] = items[k]
            /\ K(t) \notin DOMAIN items => items' = items
            /\ Without(items', {K(t)}) = items'
            /\ pc'[t] = "ret"]_vars

\* two GetOrDeletes found the same key expired and each has run delete on
\* it, the second on a key already absent
C14_DeletedTwice ==
  \E t \in Callers, u \in Callers :
    /\ t # u /\ Returned(t, "GetOrDelete") /\ Returned(u, "GetOrDelete") /\ K(t) = K(u)
    /\ ret[t].stale /\ ret[u].stale
    /\ K(t) \notin DOMAIN items

\* --------------------------------------------------------------- C15
\* C15: the delete of a GetOrDelete(k) that read k expired removes whatever
\* entry k has by then: where a Set has stored a live entry for k in between,
\* that entry is removed, and Get's lookup of k finds nothing at any clock
\* value up to the new expiry.
C15_DeleteRemovesLive ==
  [][\A t \in Callers :
       delete(t) /\ K(t) \in DOMAIN items /\ ~Expired(items[K(t)].expiry, now)
         => /\ ret[t].stale
            /\ K(t) \notin DOMAIN items'
            /\ \A c \in now..items[K(t)].expiry : ~Lookup(items', K(t), c).found]_vars

\* a GetOrDelete(k) has read k expired, the other caller's Set has then stored
\* an entry for k that is not yet expired, no sweep has run, and the
\* GetOrDelete has returned: k is absent and a Get(k) would find nothing
C15_LiveEntryLost ==
  \E t \in Callers, u \in Callers :
    /\ Returned(t, "GetOrDelete") /\ ret[t].stale
    /\ Returned(u, "Set") /\ K(u) = K(t)
    /\ now < lastSet[K(t)].expiry
    /\ pc[Janitor] = "jan_sleep" /\ timer = 2 * defaultExpiry
    /\ K(t) \notin DOMAIN items
    /\ ~Lookup(items, K(t), now).found

\* --------------------------------------------------------------- C16
\* the goroutine of main: it runs no method of the cache
Main == NumCallers + 1

\* C16 as stated: every read of the map (the lookups, the scan, and main's
\* read of the entry count) is made by a goroutine holding the lock at least
\* in shared mode, every change of the map while the lock is held in
\* exclusive mode, and the count is never read while a goroutine holds the
\* exclusive lock.
C16_LockDiscipline ==
  [][/\ \A t \in Threads :
          (GetRead(t) \/ GetOrDeleteRead(t) \/ \E k \in Keys : CleanupScan(t, k))
            => t \in mu.r /\ mu.w = NoOne
     /\ items' # items => mu.w # NoOne /\ mu.r = {}
     /\ main => (Main \in mu.r \/ mu.w = Main)
     /\ main => mu.w = NoOne]_vars

\* --------------------------------------------------------------- C17
\* key k has an entry that is past its expiry
Stale(k) == k \in DOMAIN items /\ Expired(items[k].expiry, now)

\* C17 as stated: under fair scheduling, an entry that is expired while the
\* janitor waits for a timer that will fire is eventually removed from the
\* map, unless a Set overwrites it, whatever the callers do.
C17_JanitorReclaims ==
  \A k \in Keys :
    (Stale(k) /\ pc[Janitor] = "jan_sleep" /\ timer <= MaxTime) ~> ~Stale(k)

\* --------------------------------------------------------------- C18
\* C18: on every map and clock value reached and for every key, GetOrDelete
\* computes the (value, found) pair that Get computes; a GetOrDelete returns
\* that pair, and it differs from Get only in going on to the delete, which
\* it does exactly when the key is present and expired.
C18_GetOrDeleteAgreesWithGet ==
  [][/\ \A k \in Keys :
          /\ LookupOrDelete(items, k, now).val = Lookup(items, k, now).val
          /\ LookupOrDelete(items, k, now).found = Lookup(items, k, now).found
     /\ \A t \in Callers :
          GetOrDeleteRead(t)
            => /\ ret'[t].val = Lookup(items, K(t), now).val
               /\ ret'[t].found = Lookup(items, K(t), now).found
               /\ items' = items
               /\ pc'[t] = "del_lock" <=> (K(t) \in DOMAIN items /\ items[K(t)].expiry < now)]_vars

\* a Get and a GetOrDelete of the same key have both found it expired: both
\* return ("", false), the Get has returned and the GetOrDelete goes on to
\* the delete
C18_SameAnswer ==
  \E t \in Callers, u \in Callers :
    /\ Returned(t, "Get") /\ call[u].op = "GetOrDelete" /\ pc[u] = "del_lock"
    /\ K(t) = K(u) /\ K(t) \in DOMAIN items
    /\ ret[t].stale /\ ret[u].stale
    /\ ret[t].val = ret[u].val /\ ret[t].found = ret[u].found

\* --------------------------------------------------------------- C19
\* C19: a sweep scans under the shared lock only and changes nothing in the
\* map while it scans; it collects only keys it finds present and expired;
\* it has released the shared lock when it takes the exclusive one; and its
\* delete phase, under the exclusive lock, removes the collected keys and
\* leaves every other key with the entry it had.
C19_SweepTwoPhase ==
  [][\A t \in Threads :
       /\ (CleanupRLock(t) \/ (\E k \in Keys : CleanupScan(t, k)) \/ CleanupRUnlock(t))
            => items' = items /\ mu.w = NoOne /\ mu'.w = NoOne
       /\ ((\E k \in Keys : CleanupScan(t, k)) \/ CleanupRUnlock(t)) => t \in mu.r
       /\ (\E k \in Keys : CleanupScan(t, k))
            => sweep'[t].keys \ sweep[t].keys
                 \subseteq {k \in DOMAIN items : items[k].expiry < now}
       /\ CleanupLock(t) => t \notin mu.r /\ items' = items
       /\ CleanupDelete(t)
            => /\ mu.w = t /\ mu.r = {}
               /\ DOMAIN items' = (DOMAIN items) \ sweep[t].keys
               /\ \A k \in DOMAIN items' : items'[k] = items[k]]_vars

\* the janitor's sweep has scanned two keys, collected one of them and
\* deleted it: the key it did not collect still has its entry
C19_SweptCollected ==
  /\ pc[Janitor] = "cl_ret"
  /\ sweep[Janitor].keys # {} /\ sweep[Janitor].keys \cap DOMAIN items = {}
  /\ \E k \in sweep[Janitor].scanned \ sweep[Janitor].keys :
       k \in DOMAIN items /\ items[k] = lastSet[k]

\* --------------------------------------------------------------- C20
\* C20: a Set that takes the lock with len(c.items) < maxItems starts no
\* cleanup: it goes straight to its insert, and the insert leaves every other
\* key with the entry it had; the count grows by one if k was absent and
\* stays if k was present.
C20_SetBelowCapacity ==
  [][\A t \in Callers :
       /\ (\E m \in Caps : SetLock(t, m) /\ Len < m)
            => pc'[t] = "set_write" /\ items' = items /\ sweep' = sweep /\ mu'.w = t
       /\ (\E v \in Vals, e \in TTLs : SetWrite(t, v, e))
            => /\ mu.w = t
               /\ DOMAIN items' = (DOMAIN items) \cup {K(t)}
               /\ \A k \in (DOMAIN items) \ {K(t)} : items'[k] = items[k]
               /\ Cardinality(DOMAIN items')
                    = IF K(t) \in DOMAIN items THEN Len ELSE Len + 1]_vars

\* a Set below capacity has added its key next to an expired entry of the
\* other key, which is still there; no sweep has run
C20_OtherKeyKept ==
  \E t \in Callers :
    /\ Returned(t, "Set") /\ K(t) \in DOMAIN items /\ items[K(t)] = lastSet[K(t)]
    /\ Len = 2
    /\ \E k \in (DOMAIN items) \ {K(t)} : items[k].expiry < now /\ items[k].expiry < items[K(t)].expiry
    /\ pc[Janitor] = "jan_sleep" /\ timer = 2 * defaultExpiry
    /\ \A u \in Callers : sweep[u] = NoSweep /\ Idle(u)

TypeOK ==
  /\ DOMAIN items \subseteq Keys
  /\ \A k \in DOMAIN items : items[k].val \in Vals /\ items[k].expiry \in 0..(MaxTime + MaxTTL)
  /\ readOnly \in 0..MaxFreeze
  /\ mu.w \in Threads \cup {NoOne} /\ mu.r \subseteq Threads
  /\ now \in 0..MaxTime
  /\ calls \in 0..MaxCalls
  /\ remained \in {NoLen} \cup 0..NumKeys

====
